---- MODULE Spec2Model ----
(***************************************************************************)
(* Model of the C-3PO translation extension: the TranslationService        *)
(* (src/src/services/translation-service.ts), which keeps the AI provider  *)
(* configuration encrypted in chrome.storage.sync and issues the           *)
(* chat-completion request, as it runs in the popup and in the background  *)
(* event page.                                                             *)
(*                                                                         *)
(* Strings are sequences of UTF-16 code units, byte arrays are sequences   *)
(* of numbers in 0..255.  An operation that can throw returns a record     *)
(* [ok, val]; ok = FALSE stands for the exception.                         *)
(***************************************************************************)
EXTENDS Integers, Sequences, FiniteSets, TLC

\* ------------------------------------------------------------------------
\* Bounds of the model
\* ------------------------------------------------------------------------
MaxSets == 1
MaxText == 3
MaxStr == 2

\* ------------------------------------------------------------------------
\* Literals of the source
\* ------------------------------------------------------------------------
Fields == {"endpoint", "model", "apiKey"}

\* translation-service.ts:22-26
DEFAULT_CONFIG ==
  [ endpoint |-> << 104, 116, 116, 112, 115, 58, 47, 47, 103, 101, 110, 101,
                    114, 97, 116, 105, 118, 101, 108, 97, 110, 103, 117, 97,
                    103, 101, 46, 103, 111, 111, 103, 108, 101, 97, 112, 105,
                    115, 46, 99, 111, 109, 47, 118, 49, 98, 101, 116, 97, 47,
                    111, 112, 101, 110, 97, 105, 47 >>,
    model    |-> << 103, 101, 109, 105, 110, 105, 45, 50, 46, 48, 45, 102,
                    108, 97, 115, 104, 45, 108, 105, 116, 101 >>,
    apiKey   |-> << >> ]

\* the property names of AIProviderConfig as JSON.stringify writes them
KeyText(f) ==
  CASE f = "endpoint" -> << 101, 110, 100, 112, 111, 105, 110, 116 >>
    [] f = "model"    -> << 109, 111, 100, 101, 108 >>
    [] f = "apiKey"   -> << 97, 112, 105, 75, 101, 121 >>

\* decryptConfig slices the key and the IV off the front of the blob
KeyLen == 32
IvLen == 12
\* AES-GCM appends a 128-bit authentication tag to the ciphertext
TagLen == 16

NOT_INITIALIZED == "AI service not initialized. Please configure your AI provider settings."
TRANSLATION_FAILED == "Translation failed"

\* ------------------------------------------------------------------------
\* JSON.stringify / JSON.parse of a flat object with string members
\* ------------------------------------------------------------------------
Throw == [ok |-> FALSE, val |-> << >>]
Return(v) == [ok |-> TRUE, val |-> v]

\* the concatenation of the sequences ps[lo], ..., ps[hi]
RECURSIVE Flatten(_, _, _)
Flatten(ps, lo, hi) ==
  IF lo > hi THEN << >>
  ELSE IF lo = hi THEN ps[lo]
  ELSE LET mid == (lo + hi) \div 2
       IN  Flatten(ps, lo, mid) \o Flatten(ps, mid + 1, hi)

\* JsonEscape with the backslash left as it is
JsonEscapeQuoteOnly(s) ==
  Flatten([i \in 1..Len(s) |->
             IF s[i] = 34 THEN << 92, 34 >> ELSE << s[i] >>], 1, Len(s))

\* the escapes of JSON.stringify for the quote, the backslash and the
\* line feed, carriage return and tab (other control characters are not in
\* the alphabet of the model)
JsonEscape(s) ==
  Flatten([i \in 1..Len(s) |->
             IF s[i] = 34 THEN << 92, 34 >>
             ELSE IF s[i] = 92 THEN << 92, 92 >>
             ELSE IF s[i] = 10 THEN << 92, 110 >>
             ELSE IF s[i] = 13 THEN << 92, 114 >>
             ELSE IF s[i] = 9 THEN << 92, 116 >>
             ELSE << s[i] >>], 1, Len(s))

\* a string member value: the quoted, escaped text
JsonQuote(s) == << 34 >> \o JsonEscape(s) \o << 34 >>

\* JSON.stringify(config): members in insertion order endpoint, model, apiKey
JSON_stringify(cfg) ==
  << 123 >> \o JsonQuote(KeyText("endpoint")) \o << 58 >> \o JsonQuote(cfg.endpoint)
  \o << 44 >> \o JsonQuote(KeyText("model")) \o << 58 >> \o JsonQuote(cfg.model)
  \o << 44 >> \o JsonQuote(KeyText("apiKey")) \o << 58 >> \o JsonQuote(cfg.apiKey)
  \o << 125 >>

\* the number of consecutive backslashes that end at s[j]
RECURSIVE BackslashRun(_, _)
BackslashRun(s, j) ==
  IF j >= 1 /\ s[j] = 92 THEN 1 + BackslashRun(s, j - 1) ELSE 0

\* s[j] is taken literally because an escaping backslash precedes it
Escaped(s, j) == BackslashRun(s, j - 1) % 2 = 1

\* reads the string literal whose opening quote is s[i - 1]: the text runs to
\* the first quote that is not escaped; val is <<text, index after the quote>>
JsonReadString(s, i) ==
  LET closers == {j \in i..Len(s) : s[j] = 34 /\ ~Escaped(s, j)}
  IN  IF closers = {} THEN Throw
      ELSE LET close == CHOOSE j \in closers : \A k \in closers : j <= k
               bad(p) == IF Escaped(s, p) THEN s[p] \notin {34, 92, 47, 110, 114, 116}
                         ELSE s[p] < 32
               unescape(c) == IF c = 110 THEN 10
                              ELSE IF c = 114 THEN 13
                              ELSE IF c = 116 THEN 9 ELSE c
           IN  IF \E p \in i..(close - 1) : bad(p) THEN Throw
               ELSE Return(<< Flatten([p \in i..(close - 1) |->
                                         IF s[p] = 92 /\ ~Escaped(s, p) THEN << >>
                                         ELSE IF Escaped(s, p) THEN << unescape(s[p]) >>
                                         ELSE << s[p] >>], i, close - 1),
                              close + 1 >>)

FieldOf(name) ==
  IF \E f \in Fields : KeyText(f) = name
    THEN CHOOSE f \in Fields : KeyText(f) = name
    ELSE "other"

\* reads `"name":"value"` members from s[i] on; obj is the object read so far
\* (a function from the known property names that occurred to their values,
\* a later member replacing an earlier one of the same name)
RECURSIVE JsonReadMembers(_, _, _)
JsonReadMembers(s, i, obj) ==
  IF i > Len(s) \/ s[i] # 34 THEN Throw
  ELSE LET k == JsonReadString(s, i + 1)
       IN  IF ~k.ok THEN Throw
           ELSE LET j == k.val[2]
                IN  IF j + 1 > Len(s) \/ s[j] # 58 \/ s[j + 1] # 34 THEN Throw
                    ELSE LET v == JsonReadString(s, j + 2)
                         IN  IF ~v.ok THEN Throw
                             ELSE LET n == v.val[2]
                                      f == FieldOf(k.val[1])
                                      obj2 == IF f = "other" THEN obj
                                              ELSE [g \in (DOMAIN obj) \cup {f} |->
                                                      IF g = f THEN v.val[1] ELSE obj[g]]
                                  IN  IF n > Len(s) THEN Throw
                                      ELSE IF s[n] = 125
                                        THEN (IF n = Len(s) THEN Return(obj2) ELSE Throw)
                                      ELSE IF s[n] = 44
                                        THEN JsonReadMembers(s, n + 1, obj2)
                                      ELSE Throw

EmptyObject == [f \in {} |-> << >>]

\* JSON.parse(text) for a text that is an object of string members; any other
\* text is a SyntaxError
JSON_parse(s) ==
  IF Len(s) < 2 \/ s[1] # 123 THEN Throw
  ELSE IF s[2] = 125 THEN (IF Len(s) = 2 THEN Return(EmptyObject) ELSE Throw)
  ELSE JsonReadMembers(s, 2, EmptyObject)

\* { ...base, ...partial }
Merge(base, partial) ==
  [f \in Fields |-> IF f \in DOMAIN partial THEN partial[f] ELSE base[f]]

\* ------------------------------------------------------------------------
\* TextEncoder / TextDecoder (UTF-8)
\* ------------------------------------------------------------------------
Utf8Of(c) ==
  IF c < 128 THEN << c >>
  ELSE IF c < 2048 THEN << 192 + (c \div 64), 128 + (c % 64) >>
  ELSE << 224 + (c \div 4096), 128 + ((c \div 64) % 64), 128 + (c % 64) >>

TextEncoder_encode(s) == Flatten([i \in 1..Len(s) |-> Utf8Of(s[i])], 1, Len(s))

IsCont(b, i) == i >= 1 /\ i <= Len(b) /\ b[i] >= 128 /\ b[i] < 192

\* b[i] opens a well-formed two-byte / three-byte sequence
Lead2(b, i) == i >= 1 /\ i <= Len(b) /\ b[i] >= 194 /\ b[i] < 224 /\ IsCont(b, i + 1)
Lead3(b, i) ==
  /\ i >= 1 /\ i <= Len(b) /\ b[i] >= 224 /\ b[i] < 240
  /\ IsCont(b, i + 1) /\ IsCont(b, i + 2)
  /\ (b[i] - 224) * 4096 + (b[i + 1] - 128) * 64 >= 2048

\* the code units that the byte at i contributes: the character of the
\* sequence it opens, nothing when it continues a well-formed sequence, and
\* U+FFFD when it is ill-formed (the decoder is not fatal)
Utf8At(b, i) ==
  IF b[i] < 128 THEN << b[i] >>
  ELSE IF Lead2(b, i) THEN << (b[i] - 192) * 64 + (b[i + 1] - 128) >>
  ELSE IF Lead3(b, i)
    THEN << (b[i] - 224) * 4096 + (b[i + 1] - 128) * 64 + (b[i + 2] - 128) >>
  ELSE IF IsCont(b, i) /\ (Lead2(b, i - 1) \/ Lead3(b, i - 1) \/ Lead3(b, i - 2))
    THEN << >>
  ELSE << 65533 >>

TextDecoder_decode(b) == Flatten([i \in 1..Len(b) |-> Utf8At(b, i)], 1, Len(b))

\* ------------------------------------------------------------------------
\* btoa / atob
\* ------------------------------------------------------------------------
\* the character of a 6-bit value in the base64 alphabet
B64Char(v) ==
  IF v < 26 THEN 65 + v
  ELSE IF v < 52 THEN 97 + (v - 26)
  ELSE IF v < 62 THEN 48 + (v - 52)
  ELSE IF v = 62 THEN 43 ELSE 47

\* the 6-bit value of a character, -1 for a character outside the alphabet
B64Val(c) ==
  IF c >= 65 /\ c <= 90 THEN c - 65
  ELSE IF c >= 97 /\ c <= 122 THEN c - 97 + 26
  ELSE IF c >= 48 /\ c <= 57 THEN c - 48 + 52
  ELSE IF c = 43 THEN 62
  ELSE IF c = 47 THEN 63 ELSE -1

\* btoa(binary): InvalidCharacterError when a code unit is above 255
btoa(s) ==
  IF \E i \in 1..Len(s) : s[i] > 255 THEN Throw
  ELSE LET n == Len(s)
           at(k) == IF k <= n THEN s[k] ELSE 0
           out(i) ==
             LET g == (i - 1) \div 4
                 p == (i - 1) % 4
                 b0 == at(3 * g + 1)
                 b1 == at(3 * g + 2)
                 b2 == at(3 * g + 3)
             IN  IF p = 0 THEN B64Char(b0 \div 4)
                 ELSE IF p = 1 THEN B64Char((b0 % 4) * 16 + (b1 \div 16))
                 ELSE IF p = 2
                   THEN (IF 3 * g + 2 > n THEN 61
                         ELSE B64Char((b1 % 16) * 4 + (b2 \div 64)))
                 ELSE (IF 3 * g + 3 > n THEN 61 ELSE B64Char(b2 % 64))
       IN  Return([i \in 1..(4 * ((n + 2) \div 3)) |-> out(i)])

\* atob(text): the padding is dropped when the length is a multiple of 4;
\* InvalidCharacterError for a length of 1 modulo 4 or a foreign character
atob(s) ==
  LET n0 == Len(s)
      pad == IF n0 > 0 /\ n0 % 4 = 0
               THEN (IF s[n0] = 61 THEN (IF s[n0 - 1] = 61 THEN 2 ELSE 1) ELSE 0)
               ELSE 0
      n == n0 - pad
      v(k) == IF k <= n THEN B64Val(s[k]) ELSE 0
      out(j) ==
        LET g == (j - 1) \div 3
            r == (j - 1) % 3
        IN  IF r = 0 THEN v(4 * g + 1) * 4 + (v(4 * g + 2) \div 16)
            ELSE IF r = 1 THEN (v(4 * g + 2) % 16) * 16 + (v(4 * g + 3) \div 4)
            ELSE (v(4 * g + 3) % 4) * 64 + v(4 * g + 4)
  IN  IF n % 4 = 1 \/ (\E k \in 1..n : B64Val(s[k]) < 0) THEN Throw
      ELSE Return([j \in 1..((n * 6) \div 8) |-> out(j)])

\* ------------------------------------------------------------------------
\* crypto.subtle AES-GCM, by its contract: the ciphertext is the plaintext
\* under a keystream of the key and the IV, followed by an authentication
\* tag over key, IV and ciphertext; decrypt rejects a wrong tag
\* ------------------------------------------------------------------------
\* Uint8Array.prototype.slice(from, to) with 0-based, clamped bounds
Slice(b, from, to) ==
  LET hi == IF to < Len(b) THEN to ELSE Len(b)
  IN  IF from >= hi THEN << >> ELSE [i \in 1..(hi - from) |-> b[from + i]]

\* the outcomes of generateKey / getRandomValues that the model draws from:
\* each seed stands for one key and one IV
Seeds == {1, 2}
RandomKey(n) == [i \in 1..KeyLen |-> (17 * i * n + 3 * n) % 256]
RandomIv(n) == [i \in 1..IvLen |-> (29 * i + 101 * n) % 256]

RECURSIVE WeightedSum(_, _, _)
WeightedSum(b, lo, hi) ==
  IF lo > hi THEN 0
  ELSE IF lo = hi THEN (lo * (b[lo] + 1)) % 65521
  ELSE LET mid == (lo + hi) \div 2
       IN  (WeightedSum(b, lo, mid) + WeightedSum(b, mid + 1, hi)) % 65521

KeyStream(key, iv, i) == key[((i - 1) % Len(key)) + 1] + iv[((i - 1) % Len(iv)) + 1]

GcmTag(key, iv, ct) ==
  LET h == WeightedSum(key \o iv \o ct, 1, Len(key) + Len(iv) + Len(ct))
  IN  [j \in 1..TagLen |-> (h \div j + 31 * j) % 256]

AesGcmEncrypt(key, iv, data) ==
  LET ct == [i \in 1..Len(data) |-> (data[i] + KeyStream(key, iv, i)) % 256]
  IN  ct \o GcmTag(key, iv, ct)

\* importKey rejects a raw key that is not 128, 192 or 256 bits long; decrypt
\* rejects an empty IV, an input shorter than the tag and a tag that does not
\* match
AesGcmDecrypt(key, iv, input) ==
  IF Len(key) \notin {16, 24, 32} \/ Len(iv) = 0 \/ Len(input) < TagLen THEN Throw
  ELSE LET n == Len(input) - TagLen
           ct == Slice(input, 0, n)
           tag == Slice(input, n, Len(input))
       IN  IF tag # GcmTag(key, iv, ct) THEN Throw
           ELSE Return([i \in 1..n |-> (ct[i] + 512 - KeyStream(key, iv, i)) % 256])

\* ------------------------------------------------------------------------
\* TranslationService.encryptConfig / decryptConfig
\* ------------------------------------------------------------------------
\* n is the draw of the random key and IV; cryptoOk = FALSE is the case of
\* the try block throwing.  The result is the blob, or the exception that
\* leaves the catch block when btoa refuses the JSON text.
encryptConfig(cfg, n, cryptoOk) ==
  IF cryptoOk
    THEN LET data == TextEncoder_encode(JSON_stringify(cfg))
             key == RandomKey(n)
             iv == RandomIv(n)
             combined == key \o iv \o AesGcmEncrypt(key, iv, data)
         IN  btoa(combined)
    ELSE btoa(JSON_stringify(cfg))

\* the try block of decryptConfig: the parsed object, or the exception
DecryptAes(encryptedData) ==
  LET bin == atob(encryptedData)
  IN  IF ~bin.ok THEN Throw
      ELSE LET combined == bin.val
               keyData == Slice(combined, 0, KeyLen)
               iv == Slice(combined, KeyLen, KeyLen + IvLen)
               encrypted == Slice(combined, KeyLen + IvLen, Len(combined))
               decrypted == AesGcmDecrypt(keyData, iv, encrypted)
           IN  IF ~decrypted.ok THEN Throw
               ELSE JSON_parse(TextDecoder_decode(decrypted.val))

\* the fallback of decryptConfig: JSON.parse(atob(encryptedData))
DecryptLegacy(encryptedData) ==
  LET bin == atob(encryptedData)
  IN  IF ~bin.ok THEN Throw ELSE JSON_parse(bin.val)

\* decryptConfig without the base64 fallback
decryptConfigNoFallback(encryptedData) ==
  LET aes == DecryptAes(encryptedData)
  IN  IF aes.ok THEN aes.val ELSE DEFAULT_CONFIG

decryptConfig(encryptedData) ==
  LET aes == DecryptAes(encryptedData)
  IN  IF aes.ok THEN aes.val
      ELSE LET legacy == DecryptLegacy(encryptedData)
           IN  IF legacy.ok THEN legacy.val ELSE DEFAULT_CONFIG

\* ------------------------------------------------------------------------
\* String.prototype.trim
\* ------------------------------------------------------------------------
WhiteSpace ==
  {9, 10, 11, 12, 13, 32, 160, 5760, 8232, 8233, 8239, 8287, 12288, 65279}
  \cup (8192..8202)

\* trim that strips the leading white space only
trimStart(s) ==
  LET keep == {i \in 1..Len(s) : s[i] \notin WhiteSpace}
  IN  IF keep = {} THEN << >>
      ELSE LET first == CHOOSE i \in keep : \A k \in keep : i <= k
           IN  [i \in 1..(Len(s) - first + 1) |-> s[first + i - 1]]

trim(s) ==
  LET keep == {i \in 1..Len(s) : s[i] \notin WhiteSpace}
  IN  IF keep = {} THEN << >>
      ELSE LET first == CHOOSE i \in keep : \A k \in keep : i <= k
               last_ == CHOOSE i \in keep : \A k \in keep : k <= i
           IN  [i \in 1..(last_ - first + 1) |-> s[first + i - 1]]

\* ------------------------------------------------------------------------
\* State
\* ------------------------------------------------------------------------
\* the execution contexts that import the module and so hold an instance
\* of TranslationService each
Ctx == {"popup", "background"}

VARIABLES
  store,        \* chrome.storage.sync: the value under aiConfig (<< >>: none)
  stored,       \* what the stored value was made from: [kind, obj, by, writer]
  config,       \* this.config of the instance of each context
  client,       \* this.client of the instance of each context
  initPc,       \* position of initializeAI in each context
  initBlob,     \* result.aiConfig read by initializeAI
  setPc,        \* position of the setConfig call of each context
  setArg,       \* the object handed to encryptConfig by that call
  call,         \* the translate call of each context: [pc, sent, req]
  last,         \* the step taken last and what it returned
  nSets,        \* the number of setConfig calls made
  rt,           \* an encrypt / decrypt round trip: [phase, config, blob, out]
  prefs,        \* chrome.storage.sync: the preference keys
  menus,        \* the context-menu entries: a set of [id, by]
  rebuilds,     \* the createContextMenus calls made: a sequence of [removed, read, snap, created]
  seed,         \* the setDefaultSettings call: [pc, snap]
  changed,      \* storage.onChanged events not yet delivered to the background
  writes,       \* the number of preference writes made by the popup
  updates,      \* updateContextMenus messages of the popup not yet received
  request,      \* the runtime message the background page is handling
  click,        \* the context-menu click the background page is handling
  outbox,       \* the messages sent to the tab of that click
  page,         \* the content script's page: selection record, field, clipboard
  ev            \* the background or content step taken last and what it did

vars == << store, stored, config, client, initPc, initBlob, setPc, setArg,
           call, last, nSets, rt, prefs, menus, rebuilds, seed, changed, writes,
           updates, request, click, outbox, page, ev >>

\* the state outside the service: the background page's menus and
\* preferences, its message and click handlers, the content script
menuVars == << prefs, menus, rebuilds, seed, changed, writes, updates >>
handlerVars == << request, click, outbox >>
extVars == << menuVars, handlerVars, page, ev >>

serviceVars == << store, stored, config, client, initPc, initBlob, setPc,
                  setArg, call, last, nSets >>

NoClient == [live |-> FALSE, apiKey |-> << >>, baseURL |-> << >>]
NoReq == [apiKey |-> << >>, baseURL |-> << >>, model |-> << >>]
NoCall == [pc |-> "idle", sent |-> 0, req |-> NoReq]
NoResp == [kind |-> "none", isError |-> FALSE, message |-> "", content |-> << >>]
NoResult == [translatedText |-> << >>, success |-> FALSE, error |-> ""]
NoLast ==
  [op |-> "none", ctx |-> "popup", prev |-> DEFAULT_CONFIG, arg |-> EmptyObject,
   cfg |-> DEFAULT_CONFIG, flag |-> FALSE, ok |-> TRUE, cause |-> "",
   result |-> NoResult,
   sent |-> 0, req |-> NoReq, resp |-> NoResp]
NoRt == [phase |-> "off", config |-> DEFAULT_CONFIG, blob |-> << >>,
         aes |-> FALSE, out |-> EmptyObject]

\* the ids of the two built-in context-menu entries
CONTEXT_MENU_ID == "translate-selected-text"
SPANISH_TO_ENGLISH_ID == "translate-spanish-to-english"

\* a preference key without a value; enableSpanishToEnglish holds "true" or
\* "false" when set, the language keys a language code
Unset == "unset"
NoPrefs ==
  [enableSpanishToEnglish |-> Unset, customMenuItems |-> << >>,
   defaultSourceLang |-> Unset, defaultTargetLang |-> Unset]
NoSeed == [pc |-> "idle", snap |-> NoPrefs]
NoEv == [op |-> "none", before |-> NoPrefs, rebuild |-> 0, lost |-> {}]

\* a response handed to sendResponse: { success: true } of the menu update
\* has no other property, written here as the empty text and message
NoRequest ==
  [action |-> "none", pending |-> FALSE, sent |-> FALSE, resp |-> NoResp,
   result |-> NoResult, responses |-> << >>, returned |-> "none"]
NoTranslateRequest == [text |-> << >>, sourceLang |-> "", targetLang |-> ""]
NoClick ==
  [pc |-> "idle", item |-> "", tab |-> FALSE, selection |-> << >>,
   sourceLang |-> "", targetLang |-> "", sent |-> FALSE, called |-> FALSE,
   req |-> NoTranslateRequest, resp |-> NoResp, result |-> NoResult]
\* the content script's page before any selection: the two recorded
\* values of the script, the element holding the recorded selection
\* (recorded: body for page text), document.activeElement (active), the text field's value and
\* selection offsets, the clipboard; and of the last handled message: the
\* path taken, the translated text, what was changed (input: the field's
\* value, range: the content of the recorded range in its contenteditable
\* element, page: a text node inserted at a range that lies in no
\* contenteditable element), whether the DOM replacement threw, the 'input'
\* events emitted, the toasts shown, whether a promise was rejected with no
\* handler attached, the state before; origin: the element holding the
\* selection for which a translation has been requested and not yet handled
NoPrev ==
  [recorded |-> "none", active |-> "body", value |-> << >>, selectionStart |-> 0,
   selectionEnd |-> 0, clipboard |-> << >>, isEditableField |-> FALSE,
   currentRange |-> FALSE]
NoPage ==
  [isEditableField |-> FALSE, currentRange |-> FALSE, recorded |-> "none",
   active |-> "body", value |-> << >>, selectionStart |-> 0, selectionEnd |-> 0,
   clipboard |-> << >>, path |-> "none", text |-> << >>, changed |-> "none",
   threw |-> FALSE, copied |-> FALSE, inputEvents |-> 0, toasts |-> << >>,
   unhandled |-> FALSE, origin |-> "none", prev |-> NoPrev]

\* the background page's handlers at rest, no preference stored
ExtInit ==
  /\ prefs = NoPrefs
  /\ menus = {}
  /\ rebuilds = << >>
  /\ seed = NoSeed
  /\ changed = 0
  /\ writes = 0
  /\ updates = 0
  /\ request = NoRequest
  /\ click = NoClick
  /\ outbox = << >>
  /\ page = NoPage
  /\ ev = NoEv

\* ------------------------------------------------------------------------
\* Inputs
\* ------------------------------------------------------------------------
\* the arguments of setConfig
Partials ==
  { [apiKey |-> << 107 >>],
    [apiKey |-> << >>],
    [endpoint |-> << 101 >>, model |-> << 937 >>, apiKey |-> << 107, 50 >>],
    [endpoint |-> << >>, apiKey |-> << 107 >>] }

\* what the synced store can hold under aiConfig when the extension starts:
\* nothing, the plain base64 JSON of an earlier write (complete, or without
\* an apiKey), a text that is not base64, base64 of a text that is not JSON
LegacyFull == [endpoint |-> << 101 >>, model |-> << 109 >>, apiKey |-> << 76 >>]
LegacyNoKey == [endpoint |-> << 101 >>, model |-> << 109 >>]
LegacyNoKeyText ==
  << 123 >> \o JsonQuote(KeyText("endpoint")) \o << 58 >> \o JsonQuote(LegacyNoKey.endpoint)
  \o << 44 >> \o JsonQuote(KeyText("model")) \o << 58 >> \o JsonQuote(LegacyNoKey.model)
  \o << 125 >>
InitStores ==
  { [blob |-> << >>, kind |-> "none", obj |-> EmptyObject],
    [blob |-> btoa(JSON_stringify(LegacyFull)).val, kind |-> "plain", obj |-> LegacyFull],
    [blob |-> btoa(LegacyNoKeyText).val, kind |-> "plain", obj |-> LegacyNoKey],
    [blob |-> << 33, 33 >>, kind |-> "junk", obj |-> EmptyObject],
    [blob |-> btoa(<< 120, 121, 122 >>).val, kind |-> "junk", obj |-> EmptyObject] }

\* the values each property of this.config can take, given these inputs
FieldValues(f) ==
  {DEFAULT_CONFIG[f]}
  \cup {p[f] : p \in {q \in Partials \cup {s.obj : s \in InitStores} : f \in DOMAIN q}}
Configs ==
  [endpoint : FieldValues("endpoint"), model : FieldValues("model"),
   apiKey : FieldValues("apiKey")]

\* encryptConfig and decryptConfig are functions of their arguments alone;
\* they are tabulated over the configurations and the stored values that can
\* occur, so that TLC evaluates each case once
Encrypted ==
  [cfg \in Configs, n \in Seeds, cryptoOk \in BOOLEAN |->
     encryptConfig(cfg, n, cryptoOk)]
StoreValues ==
  {s.blob : s \in InitStores}
  \cup {Encrypted[a].val : a \in {b \in DOMAIN Encrypted : Encrypted[b].ok}}
Decrypted == [blob \in StoreValues |-> decryptConfig(blob)]
AesDecrypts == [blob \in StoreValues |-> DecryptAes(blob).ok]
LegacyDecodes == [blob \in StoreValues |-> DecryptLegacy(blob).ok]

\* the texts a first choice can carry
RECURSIVE TextsOfLen(_)
TextsOfLen(n) ==
  IF n = 0 THEN {<< >>}
  ELSE {Append(t, c) : t \in TextsOfLen(n - 1), c \in {32, 72}}
Texts == UNION {TextsOfLen(n) : n \in 0..MaxText}

\* what the awaited chat.completions.create can do: reject with an Error
\* (connection error, non-2xx status), reject with a value that is not an
\* Error, or resolve with a body
Responses ==
  { [kind |-> "reject", isError |-> TRUE, message |-> "Connection error.", content |-> << >>],
    [kind |-> "reject", isError |-> TRUE, message |-> "401 status code (no body)", content |-> << >>],
    [kind |-> "reject", isError |-> FALSE, message |-> "", content |-> << >>],
    [kind |-> "nochoices", isError |-> FALSE, message |-> "", content |-> << >>],
    [kind |-> "emptychoices", isError |-> FALSE, message |-> "", content |-> << >>],
    [kind |-> "nocontent", isError |-> FALSE, message |-> "", content |-> << >>] }
  \cup { [kind |-> "text", isError |-> FALSE, message |-> "", content |-> t] : t \in Texts }

\* the settlements without a text, and the one with the empty text
Replies == {r \in Responses : r.content = << >>}

\* the message of the TypeError of reading [0] of an undefined choices list
TYPE_ERROR == "Cannot read properties of undefined (reading '0')"

\* ------------------------------------------------------------------------
\* TranslationService: what the methods compute
\* ------------------------------------------------------------------------
\* createClient: this.client after the call, old being this.client before
createClient(cfg, old) ==
  IF cfg.apiKey = << >> THEN old
  ELSE [live |-> TRUE, apiKey |-> cfg.apiKey, baseURL |-> cfg.endpoint]

\* getConfig: blob is the value read under aiConfig, readOk = FALSE the
\* case of the storage read rejecting
\* and decrypted what decryptConfig makes of it
getConfig(blob, decrypted, readOk) ==
  IF ~readOk THEN DEFAULT_CONFIG
  ELSE IF blob # << >> THEN Merge(DEFAULT_CONFIG, decrypted)
  ELSE DEFAULT_CONFIG

\* isConfigured that looks at the apiKey only
isConfiguredKeyOnly(blob, decrypted, readOk) ==
  getConfig(blob, decrypted, readOk).apiKey # << >>

isConfigured(blob, decrypted, readOk) ==
  LET cfg == getConfig(blob, decrypted, readOk)
  IN  cfg.apiKey # << >> /\ cfg.endpoint # << >> /\ cfg.model # << >>

NotInitialized ==
  [translatedText |-> << >>, success |-> FALSE, error |-> NOT_INITIALIZED]

\* translateResult with the fixed message for every rejection
translateResultFixedMessage(resp) ==
  IF resp.kind \in {"reject", "nochoices"}
    THEN [translatedText |-> << >>, success |-> FALSE, error |-> TRANSLATION_FAILED]
  ELSE IF resp.kind = "text"
    THEN [translatedText |-> trim(resp.content), success |-> TRUE, error |-> ""]
  ELSE [translatedText |-> << >>, success |-> TRUE, error |-> ""]

\* translate, from the awaited create() on: the TranslationResponse for
\* each thing the request can do
translateResult(resp) ==
  IF resp.kind = "reject"
    THEN [translatedText |-> << >>, success |-> FALSE,
          error |-> IF resp.isError THEN resp.message ELSE TRANSLATION_FAILED]
  ELSE IF resp.kind = "nochoices"
    THEN [translatedText |-> << >>, success |-> FALSE, error |-> TYPE_ERROR]
  ELSE IF resp.kind = "text"
    THEN [translatedText |-> trim(resp.content), success |-> TRUE, error |-> ""]
  ELSE [translatedText |-> << >>, success |-> TRUE, error |-> ""]

\* ------------------------------------------------------------------------
\* Initial state: both contexts have just constructed their instance
\* ------------------------------------------------------------------------
NewSetArg == [prev |-> DEFAULT_CONFIG, arg |-> EmptyObject, cfg |-> DEFAULT_CONFIG]

ServiceInit ==
  /\ \E s \in InitStores :
       /\ store = s.blob
       /\ stored = [kind |-> s.kind, obj |-> s.obj, by |-> "init", writer |-> "popup"]
  /\ config = [c \in Ctx |-> DEFAULT_CONFIG]
  /\ client = [c \in Ctx |-> NoClient]
  /\ initPc = [c \in Ctx |-> "read"]
  /\ initBlob = [c \in Ctx |-> << >>]
  /\ setPc = [c \in Ctx |-> "idle"]
  /\ setArg = [c \in Ctx |-> NewSetArg]
  /\ call = [c \in Ctx |-> NoCall]
  /\ last = NoLast
  /\ nSets = 0
  /\ rt = NoRt

Init == ServiceInit /\ ExtInit

\* ------------------------------------------------------------------------
\* Steps
\* ------------------------------------------------------------------------
\* initializeAI up to the end of its first await: the storage read; without
\* a stored value the method runs to its end in the same step
initializeAI(c) ==
  /\ initPc[c] = "read"
  /\ \E readOk \in BOOLEAN :
       IF ~readOk
         THEN /\ initPc' = [initPc EXCEPT ![c] = "done"]
              /\ UNCHANGED << initBlob, client >>
       ELSE IF store # << >>
         THEN /\ initPc' = [initPc EXCEPT ![c] = "decrypt"]
              /\ initBlob' = [initBlob EXCEPT ![c] = store]
              /\ UNCHANGED client
       ELSE /\ initPc' = [initPc EXCEPT ![c] = "done"]
            /\ client' = [client EXCEPT ![c] = createClient(config[c], client[c])]
            /\ UNCHANGED initBlob
  /\ last' = NoLast
  /\ UNCHANGED << store, stored, config, setPc, setArg, call,
                  nSets, rt, extVars >>

\* initializeAI after decryptConfig has resolved
initializeAI_decrypted(c) ==
  /\ initPc[c] = "decrypt"
  /\ LET cfg == Merge(DEFAULT_CONFIG, Decrypted[initBlob[c]])
     IN  /\ config' = [config EXCEPT ![c] = cfg]
         /\ client' = [client EXCEPT ![c] = createClient(cfg, client[c])]
  /\ initPc' = [initPc EXCEPT ![c] = "done"]
  /\ initBlob' = [initBlob EXCEPT ![c] = << >>]
  /\ last' = NoLast
  /\ UNCHANGED << store, stored, setPc, setArg, call,
                  nSets, rt, extVars >>

\* setConfig up to its first await: the merge into this.config and the
\* JSON text that encryptConfig takes of it
setConfig(c, partial) ==
  /\ setPc[c] = "idle"
  /\ nSets < MaxSets
  /\ nSets' = nSets + 1
  /\ LET merged == Merge(config[c], partial)
     IN  /\ config' = [config EXCEPT ![c] = merged]
         /\ setArg' = [setArg EXCEPT ![c] =
                         [prev |-> config[c], arg |-> partial, cfg |-> merged]]
         /\ last' = [NoLast EXCEPT !.op = "setConfig", !.ctx = c,
                       !.prev = config[c], !.arg = partial, !.cfg = merged]
  /\ setPc' = [setPc EXCEPT ![c] = "encrypt"]
  /\ UNCHANGED << store, stored, client, initPc, initBlob, call,
                  rt, extVars >>

\* setConfig from the end of encryptConfig to the storage write: the call
\* rejects when encryptConfig or chrome.storage.sync.set rejects
setConfig_write(c) ==
  /\ setPc[c] = "encrypt"
  /\ \E n \in Seeds, cryptoOk \in BOOLEAN :
       LET enc == Encrypted[setArg[c].cfg, n, cryptoOk]
           report(op, cause) ==
             [NoLast EXCEPT !.op = op, !.ctx = c, !.cause = cause,
                !.prev = setArg[c].prev, !.arg = setArg[c].arg,
                !.cfg = setArg[c].cfg, !.flag = cryptoOk]
       IN  IF ~enc.ok
             THEN /\ setPc' = [setPc EXCEPT ![c] = "idle"]
                  /\ last' = report("setConfig_rejected", "encrypt")
                  /\ UNCHANGED << store, stored >>
           ELSE \/ /\ setPc' = [setPc EXCEPT ![c] = "idle"]
                   /\ last' = report("setConfig_rejected", "storage")
                   /\ UNCHANGED << store, stored >>
                \/ /\ store' = enc.val
                   /\ stored' = [kind |-> IF cryptoOk THEN "aes" ELSE "plain",
                                 obj |-> setArg[c].cfg, by |-> "write", writer |-> c]
                   /\ setPc' = [setPc EXCEPT ![c] = "written"]
                   /\ last' = report("setConfig_write", "")
  /\ UNCHANGED << config, client, initPc, initBlob, setArg, call,
                  nSets, rt, extVars >>

\* setConfig after the storage write has resolved
setConfig_done(c) ==
  /\ setPc[c] = "written"
  /\ client' = [client EXCEPT ![c] = createClient(config[c], client[c])]
  /\ setPc' = [setPc EXCEPT ![c] = "idle"]
  /\ stored' = IF stored.by = "write" /\ stored.writer = c
                 THEN [stored EXCEPT !.by = "set"] ELSE stored
  /\ last' = [NoLast EXCEPT !.op = "setConfig_resolved", !.ctx = c,
                !.prev = setArg[c].prev, !.arg = setArg[c].arg,
                !.cfg = setArg[c].cfg]
  /\ setArg' = [setArg EXCEPT ![c] = NewSetArg]
  /\ UNCHANGED << store, config, initPc, initBlob, call,
                  nSets, rt, extVars >>

\* a getConfig call, start to end (it reads the store once)
getConfig_call(c) ==
  /\ \E readOk \in BOOLEAN :
       last' = [NoLast EXCEPT !.op = "getConfig", !.ctx = c, !.ok = readOk,
                  !.cfg = getConfig(store, Decrypted[store], readOk)]
  /\ UNCHANGED << store, stored, config, client, initPc, initBlob, setPc, setArg,
                  call, nSets, rt, extVars >>

\* an isConfigured call, start to end
isConfigured_call(c) ==
  /\ \E readOk \in BOOLEAN :
       last' = [NoLast EXCEPT !.op = "isConfigured", !.ctx = c, !.ok = readOk,
                  !.flag = isConfigured(store, Decrypted[store], readOk)]
  /\ UNCHANGED << store, stored, config, client, initPc, initBlob, setPc, setArg,
                  call, nSets, rt, extVars >>

\* translate up to its first await: without a client it returns at once,
\* with one it sends the request (last.flag: a request was sent)
translate(c) ==
  /\ call[c].pc = "idle"
  /\ IF ~client[c].live
       THEN /\ last' = [NoLast EXCEPT !.op = "translate", !.ctx = c,
                          !.cfg = config[c], !.flag = FALSE,
                          !.result = NotInitialized]
            /\ UNCHANGED call
       ELSE LET req == [apiKey |-> client[c].apiKey, baseURL |-> client[c].baseURL,
                        model |-> config[c].model]
            IN  /\ call' = [call EXCEPT ![c] = [pc |-> "waiting", sent |-> 1, req |-> req]]
                /\ last' = [NoLast EXCEPT !.op = "translate", !.ctx = c,
                              !.cfg = config[c], !.flag = TRUE, !.req = req,
                              !.sent = 1]
  /\ UNCHANGED << store, stored, config, client, initPc, initBlob, setPc, setArg,
                  nSets, rt, extVars >>

\* translate after the awaited request has settled
translate_return(c, resp) ==
  /\ call[c].pc = "waiting"
  /\ last' = [NoLast EXCEPT !.op = "translate_return", !.ctx = c,
                !.result = translateResult(resp), !.sent = call[c].sent,
                !.req = call[c].req, !.resp = resp]
  /\ call' = [call EXCEPT ![c] = NoCall]
  /\ UNCHANGED << store, stored, config, client, initPc, initBlob, setPc, setArg,
                  nSets, rt, extVars >>

\* the popup's instance: the settings form calls setConfig, getConfig and
\* isConfigured, the translate button calls translate
Next ==
  \/ initializeAI("popup")
  \/ initializeAI_decrypted("popup")
  \/ \E partial \in Partials : setConfig("popup", partial)
  \/ setConfig_write("popup")
  \/ setConfig_done("popup")
  \/ getConfig_call("popup")
  \/ isConfigured_call("popup")
  \/ translate("popup")
  \/ \E resp \in Replies : translate_return("popup", resp)

Spec == Init /\ [][Next]_vars

\* the popup together with the background event page, whose instance is
\* constructed when the page starts and serves the context-menu clicks and
\* the 'translate' messages
NextContexts ==
  \/ Next
  \/ initializeAI("background")
  \/ initializeAI_decrypted("background")
  \/ translate("background")
  \/ \E resp \in Replies : translate_return("background", resp)

SpecContexts == Init /\ [][NextContexts]_vars

\* translate on the instances of both contexts, their configuration coming
\* from the store alone, with every settlement of the request
NextTranslate ==
  \E c \in Ctx :
    \/ initializeAI(c)
    \/ initializeAI_decrypted(c)
    \/ translate(c)
    \/ \E resp \in Responses : translate_return(c, resp)

SpecTranslate == Init /\ [][NextTranslate]_vars

\* ------------------------------------------------------------------------
\* encryptConfig followed by decryptConfig, on its own
\* ------------------------------------------------------------------------
\* the characters of the property values: k, the quote, the backslash, the
\* line feed, e-acute (Latin-1) and Omega (outside Latin-1)
CodecAlphabet == {107, 34, 92, 10, 233, 937}

RECURSIVE StringsOfLen(_)
StringsOfLen(n) ==
  IF n = 0 THEN {<< >>}
  ELSE {Append(t, c) : t \in StringsOfLen(n - 1), c \in CodecAlphabet}

CodecConfigs ==
  [endpoint : {DEFAULT_CONFIG.endpoint, << >>, << 92 >>},
   model : {DEFAULT_CONFIG.model, << 34, 937 >>},
   apiKey : UNION {StringsOfLen(n) : n \in 0..MaxStr}]

InitCodec ==
  /\ store = << >>
  /\ stored = [kind |-> "none", obj |-> EmptyObject, by |-> "init", writer |-> "popup"]
  /\ config = [c \in Ctx |-> DEFAULT_CONFIG]
  /\ client = [c \in Ctx |-> NoClient]
  /\ initPc = [c \in Ctx |-> "read"]
  /\ initBlob = [c \in Ctx |-> << >>]
  /\ setPc = [c \in Ctx |-> "idle"]
  /\ setArg = [c \in Ctx |-> NewSetArg]
  /\ call = [c \in Ctx |-> NoCall]
  /\ last = NoLast
  /\ nSets = 0
  /\ \E c \in CodecConfigs : rt = [NoRt EXCEPT !.phase = "input", !.config = c]
  /\ ExtInit

\* encryptConfig(rt.config): the blob, by the AES-GCM branch or by the
\* base64 branch of the catch block, or the exception
codec_encrypt ==
  /\ rt.phase = "input"
  /\ \E n \in Seeds, cryptoOk \in BOOLEAN :
       LET enc == encryptConfig(rt.config, n, cryptoOk)
       IN  rt' = IF enc.ok
                   THEN [rt EXCEPT !.phase = "encrypted", !.blob = enc.val,
                                   !.aes = cryptoOk]
                   ELSE [rt EXCEPT !.phase = "threw"]
  /\ UNCHANGED << serviceVars, extVars >>

\* decryptConfig(rt.blob)
codec_decrypt ==
  /\ rt.phase = "encrypted"
  /\ rt' = [rt EXCEPT !.phase = "decrypted", !.out = decryptConfig(rt.blob)]
  /\ UNCHANGED << serviceVars, extVars >>

NextCodec == codec_encrypt \/ codec_decrypt

SpecCodec == InitCodec /\ [][NextCodec]_vars

\* ------------------------------------------------------------------------
\* Properties
\* ------------------------------------------------------------------------
\* C3: decrypting the blob that encryptConfig made of a configuration gives
\* the configuration back, property by property, on the AES-GCM branch and
\* on the base64 branch alike
C3_RoundTrip ==
  rt.phase = "decrypted" =>
    \A f \in Fields : f \in DOMAIN rt.out /\ rt.out[f] = rt.config[f]

\* a round trip through the base64 branch of a key with a quote and an
\* e-acute has been made
C3_Witness ==
  /\ rt.phase = "decrypted"
  /\ ~rt.aes
  /\ rt.config.apiKey = << 34, 233 >>

\* what the stored value stands for, going by how it was made: the defaults
\* for no value and for a value that is neither AES-GCM nor base64 JSON,
\* else the object it was made from over the defaults
Resolved ==
  IF stored.kind \in {"none", "junk"} THEN DEFAULT_CONFIG
  ELSE Merge(DEFAULT_CONFIG, stored.obj)

SameConfig(a, b) == \A f \in Fields : f \in DOMAIN a /\ a[f] = b[f]

\* C1: a translate call made while this.config.apiKey is empty returns the
\* 'not initialized' failure and sends no request
C1_NotInitializedWithoutKey ==
  (last.op = "translate" /\ last.cfg.apiKey = << >>) =>
    (~last.flag /\ last.result = NotInitialized)

\* C2: once a setConfig has completed and no other is under way, a translate
\* call in either context, made after that context's start-up load has
\* ended, sends its request with the endpoint, the model and the apiKey of
\* the configuration stored last
C2_ActiveConfiguration ==
  ( /\ last.op = "translate"
    /\ initPc[last.ctx] = "done"
    /\ stored.by = "set"
    /\ stored.obj.apiKey # << >>
    /\ \A c \in Ctx : setPc[c] = "idle" ) =>
    ( /\ last.flag
      /\ last.req = [apiKey |-> stored.obj.apiKey, baseURL |-> stored.obj.endpoint,
                     model |-> stored.obj.model] )

\* C4: the value that setConfig writes under aiConfig is never the mere
\* base64 of the configuration JSON
C4_StoredEncrypted ==
  last.op = "setConfig_write" => ~LegacyDecodes[store]

\* C5: isConfigured returns TRUE exactly when the configuration that the
\* stored value stands for (the defaults when the read fails) has a
\* non-empty endpoint, model and apiKey
C5_IsConfigured ==
  last.op = "isConfigured" =>
    LET cfg == IF last.ok THEN Resolved ELSE DEFAULT_CONFIG
    IN  last.flag = (cfg.endpoint # << >> /\ cfg.model # << >> /\ cfg.apiKey # << >>)

\* isConfigured has returned TRUE for a configuration written by setConfig
C5_Witness ==
  last.op = "isConfigured" /\ last.flag /\ stored.by = "set"

\* C6: getConfig returns the defaults when nothing is stored or the read
\* fails, the decrypted object over the defaults when the AES-GCM decryption
\* succeeds, the base64-JSON decode over the defaults when it fails and that
\* decode succeeds, and the defaults when both fail
C6_GetConfig ==
  last.op = "getConfig" =>
    /\ ~last.ok => last.cfg = DEFAULT_CONFIG
    /\ last.ok =>
         /\ stored.kind = "none" => store = << >> /\ last.cfg = DEFAULT_CONFIG
         /\ stored.kind = "aes" =>
              AesDecrypts[store] /\ SameConfig(last.cfg, Merge(DEFAULT_CONFIG, stored.obj))
         /\ stored.kind = "plain" =>
              /\ ~AesDecrypts[store] /\ LegacyDecodes[store]
              /\ SameConfig(last.cfg, Merge(DEFAULT_CONFIG, stored.obj))
         /\ stored.kind = "junk" =>
              /\ ~AesDecrypts[store] /\ ~LegacyDecodes[store]
              /\ last.cfg = DEFAULT_CONFIG

\* getConfig has returned the base64-JSON decode of a value that was in the
\* store from the start
C6_Witness ==
  /\ last.op = "getConfig" /\ last.ok
  /\ stored.kind = "plain" /\ stored.by = "init"
  /\ last.cfg.apiKey = LegacyFull.apiKey

\* C7: the value written by setConfig decrypts to the previous this.config
\* with the argument's properties over it; a call that resolves with a
\* non-empty apiKey leaves a client built from that configuration; and a
\* call rejects only because the storage write failed
C7_SetConfig ==
  /\ last.op = "setConfig_write" =>
       SameConfig(Decrypted[store], Merge(last.prev, last.arg))
  /\ (last.op = "setConfig_resolved" /\ last.cfg.apiKey # << >>) =>
       client[last.ctx] = [live |-> TRUE, apiKey |-> last.cfg.apiKey,
                           baseURL |-> last.cfg.endpoint]
  /\ last.op = "setConfig_rejected" => last.cause = "storage"

C9_MalformedBody ==
  (last.op = "translate_return"
     /\ last.resp.kind \in {"nochoices", "emptychoices", "nocontent"}) =>
    ~last.result.success

\* t is s without its leading and trailing white space
IsTrimOf(t, s) ==
  \E i \in 0..Len(s) : \E j \in i..Len(s) :
    /\ \A k \in 1..i : s[k] \in WhiteSpace
    /\ \A k \in (j + 1)..Len(s) : s[k] \in WhiteSpace
    /\ t = [k \in 1..(j - i) |-> s[i + k]]
    /\ t # << >> => (t[1] \notin WhiteSpace /\ t[Len(t)] \notin WhiteSpace)

\* C10: a first choice with text t makes translate return success with t
\* trimmed, the empty string when t is empty or white space only
C10_Trimmed ==
  (last.op = "translate_return" /\ last.resp.kind = "text") =>
    /\ last.result.success
    /\ last.result.error = ""
    /\ IsTrimOf(last.result.translatedText, last.resp.content)
    /\ (\A k \in 1..Len(last.resp.content) : last.resp.content[k] \in WhiteSpace)
         => last.result.translatedText = << >>

\* translate has returned "H" for the choice text " H "
C10_Witness ==
  /\ last.op = "translate_return"
  /\ last.resp.content = << 32, 72, 32 >>
  /\ last.result.translatedText = << 72 >>

\* ------------------------------------------------------------------------
\* Background page: context menus and default settings
\* ------------------------------------------------------------------------
MaxRebuilds == 2
MaxWrites == 1

\* the service as constructed, with nothing stored under aiConfig
ServiceStart ==
  /\ store = << >>
  /\ stored = [kind |-> "none", obj |-> EmptyObject, by |-> "init", writer |-> "popup"]
  /\ config = [c \in Ctx |-> DEFAULT_CONFIG]
  /\ client = [c \in Ctx |-> NoClient]
  /\ initPc = [c \in Ctx |-> "read"]
  /\ initBlob = [c \in Ctx |-> << >>]
  /\ setPc = [c \in Ctx |-> "idle"]
  /\ setArg = [c \in Ctx |-> NewSetArg]
  /\ call = [c \in Ctx |-> NoCall]
  /\ last = NoLast
  /\ nSets = 0
  /\ rt = NoRt

\* the custom entries the settings form can have stored
Custom1 == [id |-> "custom-1", sourceLang |-> "fr", targetLang |-> "de", enabled |-> TRUE]
Custom2 == [id |-> "custom-2", sourceLang |-> "auto", targetLang |-> "ja", enabled |-> FALSE]

\* the preferences the store can hold when the background page starts
InitPrefs ==
  [enableSpanishToEnglish : {Unset, "true", "false"},
   customMenuItems : {<< >>, << Custom1, Custom2 >>},
   defaultSourceLang : {Unset, "fr"},
   defaultTargetLang : {Unset}]

\* the entries the browser holds when the background page starts: none, or
\* those of an earlier run
InitMenuSets ==
  { {},
    {[id |-> CONTEXT_MENU_ID, by |-> 0], [id |-> SPANISH_TO_ENGLISH_ID, by |-> 0],
     [id |-> "custom-9", by |-> 0]} }

\* a rebuild in flight: whether the browser has removed the entries, whether
\* the callback of removeAll has run, whether the storage read has taken its
\* values (snap), whether its callback has run
NewRebuild ==
  [cleared |-> FALSE, removed |-> FALSE, read |-> FALSE, snap |-> NoPrefs,
   created |-> FALSE]

\* createContextMenus up to its return: removeAll and storage.sync.get are
\* called, their callbacks are pending
createContextMenus == rebuilds' = Append(rebuilds, NewRebuild)

\* the ids createContextMenus's storage callback creates for the result it
\* was handed
CreatedIds(result) ==
  (IF result.enableSpanishToEnglish # "false" THEN {SPANISH_TO_ENGLISH_ID} ELSE {})
  \cup {result.customMenuItems[i].id :
          i \in {j \in 1..Len(result.customMenuItems) : result.customMenuItems[j].enabled}}

\* chrome.contextMenus.create of the ids by rebuild r: an id that exists
\* already sets lastError and changes nothing
Create(entries, ids, r) ==
  entries \cup {[id |-> i, by |-> r] : i \in {j \in ids : \A m \in entries : m.id # j}}

\* runtime.onInstalled
onInstalled ==
  /\ Len(rebuilds) < MaxRebuilds
  /\ seed.pc = "idle"
  /\ createContextMenus
  /\ seed' = [pc |-> "reading", snap |-> NoPrefs]
  /\ ev' = NoEv
  /\ UNCHANGED << serviceVars, rt, prefs, menus, changed, writes, updates, handlerVars, page >>

\* runtime.onStartup
onStartup ==
  /\ Len(rebuilds) < MaxRebuilds
  /\ createContextMenus
  /\ ev' = NoEv
  /\ UNCHANGED << serviceVars, rt, prefs, menus, seed, changed, writes, updates, handlerVars, page >>

\* storage.onChanged with a change of enableSpanishToEnglish
onChanged ==
  /\ changed > 0
  /\ Len(rebuilds) < MaxRebuilds
  /\ changed' = changed - 1
  /\ createContextMenus
  /\ ev' = NoEv
  /\ UNCHANGED << serviceVars, rt, prefs, menus, seed, writes, updates, handlerVars, page >>

\* contextMenus.removeAll of rebuild r takes effect in the browser, at some
\* point between the call and its callback
removeAll(r) ==
  /\ r <= Len(rebuilds)
  /\ ~rebuilds[r].cleared
  /\ rebuilds' = [rebuilds EXCEPT ![r].cleared = TRUE]
  /\ menus' = {}
  /\ ev' = [NoEv EXCEPT !.op = "removeAll", !.rebuild = r,
              !.lost = {m \in menus : m.by = r}]
  /\ UNCHANGED << serviceVars, rt, prefs, seed, changed, writes, updates, handlerVars, page >>

\* the callback of removeAll of rebuild r: the generic entry is created
removeAll_callback(r) ==
  /\ r <= Len(rebuilds)
  /\ rebuilds[r].cleared
  /\ ~rebuilds[r].removed
  /\ rebuilds' = [rebuilds EXCEPT ![r].removed = TRUE]
  /\ menus' = Create(menus, {CONTEXT_MENU_ID}, r)
  /\ ev' = NoEv
  /\ UNCHANGED << serviceVars, rt, prefs, seed, changed, writes, updates, handlerVars, page >>

\* storage.sync.get of rebuild r takes the values of the two keys
storage_get(r) ==
  /\ r <= Len(rebuilds)
  /\ ~rebuilds[r].read
  /\ rebuilds' = [rebuilds EXCEPT ![r].read = TRUE, ![r].snap = prefs]
  /\ ev' = NoEv
  /\ UNCHANGED << serviceVars, rt, prefs, menus, seed, changed, writes, updates, handlerVars, page >>

\* the callback of storage.sync.get of rebuild r: the Spanish entry and the
\* enabled custom entries are created
storage_get_callback(r) ==
  /\ r <= Len(rebuilds)
  /\ rebuilds[r].read
  /\ ~rebuilds[r].created
  /\ rebuilds' = [rebuilds EXCEPT ![r].created = TRUE]
  /\ menus' = Create(menus, CreatedIds(rebuilds[r].snap), r)
  /\ ev' = NoEv
  /\ UNCHANGED << serviceVars, rt, prefs, seed, changed, writes, updates, handlerVars, page >>

\* the defaults of setDefaultSettings
DefaultOf(key) ==
  CASE key = "enableSpanishToEnglish" -> "true"
    [] key = "defaultSourceLang" -> "auto"
    [] key = "defaultTargetLang" -> "en"
SeededKeys == {"enableSpanishToEnglish", "defaultSourceLang", "defaultTargetLang"}

\* setDefaultSettings: storage.sync.get takes the values of the three keys
setDefaultSettings_get ==
  /\ seed.pc = "reading"
  /\ seed' = [pc |-> "writing", snap |-> prefs]
  /\ ev' = NoEv
  /\ UNCHANGED << serviceVars, rt, prefs, menus, rebuilds, changed, writes, updates, handlerVars, page >>

\* setDefaultSettings: the callback writes the three keys, each with the
\* value that was read or, without one, its default
setDefaultSettings_set ==
  /\ seed.pc = "writing"
  /\ LET defaults == [k \in SeededKeys |->
                        IF seed.snap[k] = Unset THEN DefaultOf(k) ELSE seed.snap[k]]
     IN  /\ prefs' = [k \in DOMAIN prefs |->
                        IF k \in SeededKeys THEN defaults[k] ELSE prefs[k]]
         /\ changed' = IF defaults["enableSpanishToEnglish"] # prefs.enableSpanishToEnglish
                         THEN changed + 1 ELSE changed
  /\ seed' = NoSeed
  /\ ev' = [NoEv EXCEPT !.op = "setDefaultSettings_set", !.before = prefs]
  /\ UNCHANGED << serviceVars, rt, menus, rebuilds, writes, updates, handlerVars, page >>

\* the popup's handleSaveConfig: the write of the Spanish flag and of the
\* custom entries, after which it sends the updateContextMenus message
handleSaveConfig_set(flag, items) ==
  /\ writes < MaxWrites
  /\ writes' = writes + 1
  /\ prefs' = [prefs EXCEPT !.enableSpanishToEnglish = flag, !.customMenuItems = items]
  /\ changed' = IF flag # prefs.enableSpanishToEnglish THEN changed + 1 ELSE changed
  /\ updates' = updates + 1
  /\ ev' = [NoEv EXCEPT !.op = "handleSaveConfig_set", !.before = prefs]
  /\ UNCHANGED << serviceVars, rt, menus, rebuilds, seed, handlerVars, page >>

\* the actions of the runtime messages that reach the background page
MessageActions == {"updateContextMenus", "translate", "handleTranslation"}

\* runtime.onMessage up to the listener's return
onMessage(action) ==
  /\ ~request.pending
  /\ IF action = "updateContextMenus"
       THEN /\ updates > 0
            /\ Len(rebuilds) < MaxRebuilds
            /\ updates' = updates - 1
            /\ createContextMenus
            /\ request' = [NoRequest EXCEPT !.action = action, !.returned = "undefined",
                             !.responses = << [success |-> TRUE, translatedText |-> << >>,
                                                error |-> ""] >>]
     ELSE IF action = "translate"
       THEN /\ request' = [NoRequest EXCEPT !.action = action, !.returned = "true",
                             !.pending = TRUE, !.sent = client["background"].live]
            /\ UNCHANGED << rebuilds, updates >>
     ELSE /\ request' = [NoRequest EXCEPT !.action = action, !.returned = "undefined"]
          /\ UNCHANGED << rebuilds, updates >>
  /\ ev' = [NoEv EXCEPT !.op = "onMessage"]
  /\ UNCHANGED << serviceVars, rt, prefs, menus, seed, changed, writes, click, outbox, page >>

\* a promise chain whose then and catch handlers both call sendResponse
sendResponsesThenAndCatch(result) ==
  << [success |-> result.success, translatedText |-> result.translatedText,
      error |-> result.error],
     [success |-> FALSE, translatedText |-> << >>, error |-> result.error] >>

\* what translate(request.data).then(sendResponse).catch(...) hands to
\* sendResponse when translate has resolved with result
sendResponses(result) ==
  << [success |-> result.success, translatedText |-> result.translatedText,
      error |-> result.error] >>

\* the translate promise of a 'translate' message settles: sendResponse
onMessage_translated(resp) ==
  /\ request.pending
  /\ LET result == IF request.sent THEN translateResult(resp) ELSE NotInitialized
     IN  request' = [request EXCEPT !.pending = FALSE, !.resp = resp, !.result = result,
                       !.responses = request.responses \o sendResponses(result)]
  /\ ev' = [NoEv EXCEPT !.op = "onMessage_translated"]
  /\ UNCHANGED << serviceVars, rt, menuVars, click, outbox, page >>

\* the background page's menus: the lifecycle events, the popup's save and
\* its updateContextMenus message, the storage change event
InitMenus ==
  /\ ServiceStart
  /\ prefs \in InitPrefs
  /\ menus \in InitMenuSets
  /\ rebuilds = << >>
  /\ seed = NoSeed
  /\ changed = 0
  /\ writes = 0
  /\ updates = 0
  /\ request = NoRequest
  /\ click = NoClick
  /\ outbox = << >>
  /\ page = NoPage
  /\ ev = NoEv

NextMenus ==
  \/ onInstalled
  \/ onStartup
  \/ onChanged
  \/ onMessage("updateContextMenus")
  \/ \E r \in 1..MaxRebuilds : removeAll(r)
  \/ \E r \in 1..MaxRebuilds : removeAll_callback(r)
  \/ \E r \in 1..MaxRebuilds : storage_get(r)
  \/ \E r \in 1..MaxRebuilds : storage_get_callback(r)
  \/ setDefaultSettings_get
  \/ setDefaultSettings_set
  \/ \E flag \in {"true", "false"}, items \in {<< >>, << Custom1 >>} :
       handleSaveConfig_set(flag, items)

SpecMenus == InitMenus /\ [][NextMenus]_vars

\* every callback of every rebuild has run; no change event, no message of
\* the popup and no seeding is pending
MenusSettled ==
  /\ Len(rebuilds) > 0
  /\ \A r \in 1..Len(rebuilds) : rebuilds[r].removed /\ rebuilds[r].created
  /\ changed = 0
  /\ updates = 0
  /\ seed.pc = "idle"

\* C11: once all pending callbacks have run, the ids of the context-menu
\* entries are the generic id, the Spanish id unless enableSpanishToEnglish
\* is false, and the id of every enabled entry of the stored custom list
C11_MenusFollowPreferences ==
  MenusSettled =>
    {m.id : m \in menus} =
      {CONTEXT_MENU_ID}
      \cup {id \in {SPANISH_TO_ENGLISH_ID} : prefs.enableSpanishToEnglish # "false"}
      \cup {prefs.customMenuItems[i].id :
              i \in {j \in 1..Len(prefs.customMenuItems) : prefs.customMenuItems[j].enabled}}


\* one rebuild has run to completion, alone: no other rebuild was started,
\* the popup has written nothing, no seeding is in progress and the
\* preferences are those the rebuild read
SingleRebuildDone ==
  /\ Len(rebuilds) = 1
  /\ rebuilds[1].removed
  /\ rebuilds[1].created
  /\ writes = 0
  /\ seed.pc = "idle"
  /\ rebuilds[1].snap = prefs

\* C12: a single rebuild that ran to completion from preferences without
\* custom entries leaves exactly one entry when enableSpanishToEnglish is
\* false and exactly two when it is true or unset, in every order of its
\* removal callback and its storage-read callback
C12_SingleRebuildCount ==
  (SingleRebuildDone /\ prefs.customMenuItems = << >>) =>
    Cardinality(menus) = IF prefs.enableSpanishToEnglish = "false" THEN 1 ELSE 2

\* C20: every entry a rebuild has created was created after the browser
\* carried out that rebuild's removal, and the removal of a rebuild deletes
\* no entry the same rebuild created
C20_RemovalBeforeRecreation ==
  /\ \A m \in menus : m.by > 0 => rebuilds[m.by].cleared
  /\ ev.op = "removeAll" => ev.lost = {}

\* C16: when the seeding of the defaults has written, every seeded key that
\* held a value just before the write (whoever wrote it) still holds that
\* value, and every seeded key that held none holds its default
C16_SeedOnlyUnsetKeys ==
  ev.op = "setDefaultSettings_set" =>
    \A k \in SeededKeys :
      prefs[k] = IF ev.before[k] # Unset THEN ev.before[k] ELSE DefaultOf(k)

\* ------------------------------------------------------------------------
\* Background page: a click on a context-menu entry
\* ------------------------------------------------------------------------
\* the entry ids a click can carry, the last one of an entry that is not in
\* the stored list
ClickItems == {SPANISH_TO_ENGLISH_ID, CONTEXT_MENU_ID, "custom-1", "custom-2", "custom-9"}
\* info.selectionText: none, or a text
Selections == {<< >>, << 72 >>}
\* the preferences the store can hold when an entry is clicked
ClickPrefs ==
  [enableSpanishToEnglish : {Unset},
   customMenuItems : {<< >>, << Custom1, Custom2 >>},
   defaultSourceLang : {Unset, "auto", "fr"},
   defaultTargetLang : {Unset, "de"}]

\* customMenuItems.find(item => item.id === id): the index of the first
\* entry with the id, 0 without one
FindCustom(items, id) ==
  LET hits == {j \in 1..Len(items) : items[j].id = id}
  IN  IF hits = {} THEN 0 ELSE CHOOSE j \in hits : \A k \in hits : j <= k

\* the language resolution that takes a custom entry only when it is enabled
ClickLanguagesEnabledOnly(item, result) ==
  IF item = SPANISH_TO_ENGLISH_ID
    THEN [sourceLang |-> "es", targetLang |-> "en"]
  ELSE IF item = CONTEXT_MENU_ID
    THEN [sourceLang |-> IF result.defaultSourceLang = Unset THEN "auto"
                         ELSE result.defaultSourceLang,
          targetLang |-> IF result.defaultTargetLang = Unset THEN "en"
                         ELSE result.defaultTargetLang]
  ELSE LET j == FindCustom(result.customMenuItems, item)
       IN  IF j = 0 \/ ~result.customMenuItems[j].enabled
             THEN [sourceLang |-> "auto", targetLang |-> "en"]
           ELSE [sourceLang |-> result.customMenuItems[j].sourceLang,
                 targetLang |-> result.customMenuItems[j].targetLang]

\* the languages the click listener resolves for the entry id, result being
\* what storage.sync.get returned
ClickLanguages(item, result) ==
  IF item = SPANISH_TO_ENGLISH_ID
    THEN [sourceLang |-> "es", targetLang |-> "en"]
  ELSE IF item = CONTEXT_MENU_ID
    THEN [sourceLang |-> IF result.defaultSourceLang = Unset THEN "auto"
                         ELSE result.defaultSourceLang,
          targetLang |-> IF result.defaultTargetLang = Unset THEN "en"
                         ELSE result.defaultTargetLang]
  ELSE LET j == FindCustom(result.customMenuItems, item)
       IN  IF j = 0
             THEN [sourceLang |-> "auto", targetLang |-> "en"]
           ELSE [sourceLang |-> result.customMenuItems[j].sourceLang,
                 targetLang |-> result.customMenuItems[j].targetLang]

\* the request the listener hands to translate
ClickRequest(selection, langs) ==
  [text |-> selection,
   sourceLang |-> IF langs.sourceLang = "auto" THEN "auto-detect" ELSE langs.sourceLang,
   targetLang |-> langs.targetLang]

NoMessage ==
  [action |-> "none", originalText |-> << >>, translatedText |-> << >>,
   sourceLang |-> "", targetLang |-> "", error |-> ""]

\* the message that reports every failure with the fixed text
ClickMessageFixedError(c, translation) ==
  IF translation.success
    THEN [NoMessage EXCEPT !.action = "handleTranslation", !.originalText = c.selection,
            !.translatedText = translation.translatedText,
            !.sourceLang = c.sourceLang, !.targetLang = c.targetLang]
  ELSE [NoMessage EXCEPT !.action = "showError", !.error = TRANSLATION_FAILED]

\* the message the listener sends to the tab for the result of translate
ClickMessage(c, translation) ==
  IF translation.success
    THEN [NoMessage EXCEPT !.action = "handleTranslation", !.originalText = c.selection,
            !.translatedText = translation.translatedText,
            !.sourceLang = c.sourceLang, !.targetLang = c.targetLang]
  ELSE [NoMessage EXCEPT !.action = "showError",
          !.error = IF translation.error = "" THEN TRANSLATION_FAILED
                    ELSE translation.error]

\* the listener calls translationService.translate with the resolved
\* languages; translate runs up to its first await
onClicked_translate(c, langs) ==
  [c EXCEPT !.pc = "translating", !.sourceLang = langs.sourceLang,
            !.targetLang = langs.targetLang, !.called = TRUE,
            !.sent = client["background"].live,
            !.req = ClickRequest(c.selection, langs)]

\* contextMenus.onClicked up to the listener's first await or its return
onClicked(item, tab, selection) ==
  /\ click.pc \in {"idle", "returned", "rejected", "done", "delivered"}
  /\ LET c == [NoClick EXCEPT !.item = item, !.tab = tab, !.selection = selection]
     IN  click' =
           IF ~tab \/ selection = << >> THEN [c EXCEPT !.pc = "returned"]
           ELSE IF item = SPANISH_TO_ENGLISH_ID
             THEN onClicked_translate(c, ClickLanguages(item, NoPrefs))
           ELSE [c EXCEPT !.pc = "reading"]
  /\ outbox' = << >>
  /\ UNCHANGED << serviceVars, rt, menuVars, request, page, ev >>

\* the awaited storage.sync.get of the listener settles: rejected, the
\* listener's promise rejects; resolved, the languages are taken and
\* translate is called
onClicked_read(ok) ==
  /\ click.pc = "reading"
  /\ click' = IF ok THEN onClicked_translate(click, ClickLanguages(click.item, prefs))
              ELSE [click EXCEPT !.pc = "rejected"]
  /\ UNCHANGED << serviceVars, rt, menuVars, request, outbox, page, ev >>

\* the awaited translate of the listener resolves: the message to the tab
onClicked_translated(resp) ==
  /\ click.pc = "translating"
  /\ LET translation == IF click.sent THEN translateResult(resp) ELSE NotInitialized
     IN  /\ click' = [click EXCEPT !.pc = "done", !.resp = resp, !.result = translation]
         /\ outbox' = Append(outbox, ClickMessage(click, translation))
  /\ UNCHANGED << serviceVars, rt, menuVars, request, page, ev >>

\* the background page with its service instance and the click listener
InitClick ==
  /\ ServiceInit
  /\ prefs \in ClickPrefs
  /\ menus = {}
  /\ rebuilds = << >>
  /\ seed = NoSeed
  /\ changed = 0
  /\ writes = 0
  /\ updates = 0
  /\ request = NoRequest
  /\ click = NoClick
  /\ outbox = << >>
  /\ page = NoPage
  /\ ev = NoEv

NextClick ==
  \/ initializeAI("background")
  \/ initializeAI_decrypted("background")
  \/ \E item \in ClickItems, tab \in BOOLEAN, selection \in Selections :
       onClicked(item, tab, selection)
  \/ \E ok \in BOOLEAN : onClicked_read(ok)
  \/ \E resp \in Responses : onClicked_translated(resp)

SpecClick == InitClick /\ [][NextClick]_vars

\* C13: a click with a tab id and a selected text whose handling has ended
\* has sent a message to the tab, 'showError' when an exception ended it
C13_ClickAlwaysAnswered ==
  (click.pc \in {"rejected", "done"}) =>
    /\ Len(outbox) >= 1
    /\ click.pc = "rejected" => outbox[1].action = "showError"

\* C14: a click with a tab id and a selected text whose translate call has
\* returned has sent exactly one message: 'handleTranslation' with the
\* selected text, the translated text and the two languages when the result
\* reports success, otherwise 'showError' with the error text of the
\* result; a click without a tab id or without a selected text sends no
\* message and calls translate not at all
C14_OneMessagePerClick ==
  /\ click.pc = "done" =>
        /\ click.tab /\ click.selection # << >>
        /\ Len(outbox) = 1
        /\ IF click.result.success
             THEN outbox[1] =
                    [action |-> "handleTranslation", originalText |-> click.selection,
                     translatedText |-> click.result.translatedText,
                     sourceLang |-> click.sourceLang, targetLang |-> click.targetLang,
                     error |-> ""]
           ELSE /\ outbox[1].action = "showError"
                /\ outbox[1].error = click.result.error
  /\ (click.pc # "idle" /\ (~click.tab \/ click.selection = << >>)) =>
        /\ click.pc = "returned"
        /\ outbox = << >>
        /\ ~click.called

\* a click whose translation succeeded with a text has been reported
C14_Witness ==
  /\ click.pc = "done"
  /\ click.result.success
  /\ click.result.translatedText # << >>
  /\ Len(outbox) = 1
  /\ outbox[1].action = "handleTranslation"

\* C15: the languages of a click follow the entry id: the Spanish entry
\* gives es and en; the generic entry gives the stored defaults, auto and en
\* for an unset one; another id found in the stored custom list gives that
\* entry's pair (custom-1: fr and de), an id not found gives auto and en;
\* translate receives 'auto-detect' in place of a source language 'auto'
C15_LanguagesByEntry ==
  click.called =>
    LET items == prefs.customMenuItems
        found == {j \in 1..Len(items) : items[j].id = click.item}
    IN  /\ click.item = SPANISH_TO_ENGLISH_ID =>
              click.sourceLang = "es" /\ click.targetLang = "en"
        /\ click.item = CONTEXT_MENU_ID =>
              /\ click.sourceLang = IF prefs.defaultSourceLang = Unset THEN "auto"
                                    ELSE prefs.defaultSourceLang
              /\ click.targetLang = IF prefs.defaultTargetLang = Unset THEN "en"
                                    ELSE prefs.defaultTargetLang
        /\ (click.item \notin {SPANISH_TO_ENGLISH_ID, CONTEXT_MENU_ID} /\ found # {}) =>
              \E j \in found :
                /\ \A k \in found : j <= k
                /\ click.sourceLang = items[j].sourceLang
                /\ click.targetLang = items[j].targetLang
        /\ (click.item = "custom-1" /\ found # {}) =>
              click.sourceLang = "fr" /\ click.targetLang = "de"
        /\ (click.item \notin {SPANISH_TO_ENGLISH_ID, CONTEXT_MENU_ID} /\ found = {}) =>
              click.sourceLang = "auto" /\ click.targetLang = "en"
        /\ click.req.sourceLang =
              (IF click.sourceLang = "auto" THEN "auto-detect" ELSE click.sourceLang)
        /\ click.req.targetLang = click.targetLang
        /\ click.req.text = click.selection

\* a click on a stored custom entry whose source language is auto
C15_Witness ==
  /\ click.called
  /\ click.item = "custom-2"
  /\ click.sourceLang = "auto"
  /\ click.targetLang = "ja"
  /\ click.req.sourceLang = "auto-detect"

\* ------------------------------------------------------------------------
\* Background page: the 'translate' message of the popup
\* ------------------------------------------------------------------------
InitMessages ==
  /\ ServiceInit
  /\ ExtInit

NextMessages ==
  \/ initializeAI("background")
  \/ initializeAI_decrypted("background")
  \/ \E action \in MessageActions \ {"updateContextMenus"} : onMessage(action)
  \/ \E resp \in Responses : onMessage_translated(resp)

SpecMessages == InitMessages /\ [][NextMessages]_vars

\* C17: the listener answers a 'translate' message asynchronously (it
\* returns true); the message has no response while translate is pending
\* and exactly one once it has settled, which is the result of translate
C17_OneResponse ==
  request.action = "translate" =>
    /\ request.returned = "true"
    /\ Len(request.responses) = IF request.pending THEN 0 ELSE 1
    /\ ~request.pending =>
          /\ request.result =
                (IF request.sent THEN translateResult(request.resp) ELSE NotInitialized)
          /\ request.responses[1].success = request.result.success
          /\ request.responses[1].translatedText = request.result.translatedText
          /\ request.responses[1].error = request.result.error

\* a 'translate' message answered with a translated text
C17_Witness ==
  /\ request.action = "translate"
  /\ ~request.pending
  /\ Len(request.responses) = 1
  /\ request.responses[1].success
  /\ request.responses[1].translatedText # << >>

\* ------------------------------------------------------------------------
\* Content script: the selection record, replacement and clipboard
\* ------------------------------------------------------------------------
MaxValue == 1

FOOBAR == << 102, 111, 111, 98, 97, 114 >>
BAZ == << 98, 97, 122 >>

\* the values the text field can hold when the user selects in it
RECURSIVE ValuesOfLen(_)
ValuesOfLen(n) ==
  IF n = 0 THEN {<< >>}
  ELSE {Append(v, c) : v \in ValuesOfLen(n - 1), c \in {97}}
PageValues == {FOOBAR} \cup UNION {ValuesOfLen(n) : n \in 0..MaxValue}

\* the selection offsets taken in the text field
Offsets == (0..MaxValue) \cup {Len(BAZ), Len(FOOBAR)}

\* message.translatedText
TranslatedTexts == {<< >>, BAZ, << 120 >>}

\* String.prototype.substring(from, to) for 0 <= from <= to
substring(v, from, to) ==
  SubSeq(v, from + 1, IF to < Len(v) THEN to ELSE Len(v))

\* a splice that leaves the cursor at the start of the inserted text
SpliceCursorAtStart(v, start, end, newText) ==
  [value |-> substring(v, 0, start) \o newText \o substring(v, end, Len(v)),
   newPosition |-> start]

\* replaceTextInEditableField on an input or textarea: the new value and
\* the position handed to setSelectionRange
Splice(v, start, end, newText) ==
  [value |-> substring(v, 0, start) \o newText \o substring(v, end, Len(v)),
   newPosition |-> start + Len(newText)]

\* copyToClipboard: the clipboard after navigator.clipboard.writeText
\* (apiOk) or, when it rejects, after execCommand('copy') on the temporary
\* textarea (exec: copied, false when the command is refused, throws)
copyToClipboard(clipboard, newText, apiOk, exec) ==
  IF apiOk \/ exec = "copied" THEN newText ELSE clipboard

\* the state kept of the page before a message is handled
PrevOf(pg) ==
  [recorded |-> pg.recorded, active |-> pg.active, value |-> pg.value,
   selectionStart |-> pg.selectionStart, selectionEnd |-> pg.selectionEnd,
   clipboard |-> pg.clipboard, isEditableField |-> pg.isEditableField,
   currentRange |-> pg.currentRange]

\* showSuccessNotification and showErrorNotification
Toast(type, message) == [type |-> type, message |-> message]

\* replaceTextInEditableField: on the focused input or textarea the splice;
\* otherwise, with a recorded range, the replacement of the range's content,
\* which can throw and then falls back to the clipboard
replaceTextInEditableField(pg, newText, throws, apiOk, exec) ==
  IF pg.active = "input"
    THEN LET r == Splice(pg.value, pg.selectionStart, pg.selectionEnd, newText)
         IN  [pg EXCEPT !.value = r.value, !.selectionStart = r.newPosition,
                        !.selectionEnd = r.newPosition, !.inputEvents = 1,
                        !.changed = "input"]
  ELSE IF pg.currentRange
    THEN IF throws
           THEN [pg EXCEPT !.threw = TRUE,
                           !.clipboard = copyToClipboard(pg.clipboard, newText, apiOk, exec),
                           !.copied = apiOk \/ exec = "copied",
                           !.unhandled = ~apiOk /\ exec = "throws",
                           !.toasts = Append(pg.toasts,
                              Toast("error", "Could not replace text, copied to clipboard instead"))]
         ELSE [pg EXCEPT !.changed = IF pg.recorded = "editable" THEN "range" ELSE "page",
                         !.inputEvents = 1]
  ELSE pg

\* window.getSelection().toString() at a mouseup
SelectionTexts == {<< >>, << 32 >>, << 72 >>}

\* a listener that records every selection that has a character
recordsSelectionUntrimmed(selection) == selection # << >>

\* the condition of the mouseup listener: selection.toString().trim()
recordsSelection(selection) == trim(selection) # << >>

\* mouseup: the user has clicked or selected in target, the selection
\* having the text selection; a non-blank selection is recorded together
\* with the kind of the focused element
mouseup(target, selection, hasRange, v, start, end) ==
  /\ start <= end
  /\ end <= Len(v)
  /\ selection # << >> /\ target = "input" => start < end
  /\ target # "input" => v = page.value /\ start = page.selectionStart
                          /\ end = page.selectionEnd
  /\ LET focused == [NoPage EXCEPT !.active = target, !.value = v,
                        !.selectionStart = start, !.selectionEnd = end,
                        !.text = selection, !.clipboard = page.clipboard,
                        !.origin = IF page.path = "none" THEN page.origin ELSE "none"]
     IN  page' = IF recordsSelection(selection)
                   THEN [focused EXCEPT !.currentRange = hasRange, !.recorded = target,
                           !.isEditableField = target \in {"input", "editable"}]
                 ELSE [focused EXCEPT !.currentRange = page.currentRange,
                         !.recorded = page.recorded,
                         !.isEditableField = page.isEditableField]
  /\ ev' = [NoEv EXCEPT !.op = "mouseup"]
  /\ UNCHANGED << serviceVars, rt, menuVars, handlerVars >>

\* a handler that takes every text for a translation
noTranslationNever(translatedText) == FALSE

\* handleTranslation's test !translatedText
noTranslation(translatedText) == translatedText = << >>

\* the page after handleTranslation, with replaceTextInEditableField or
\* copyToClipboard run to their end, p being the page before
handleTranslation_page(p, translatedText, throws, apiOk, exec) ==
     LET pg == [p EXCEPT !.text = translatedText, !.prev = PrevOf(p)]
     IN    IF noTranslation(translatedText)
             THEN [pg EXCEPT !.path = "error",
                     !.toasts = << Toast("error", "No translation received") >>]
           ELSE IF pg.isEditableField /\ pg.currentRange
             THEN LET replaced ==
                        replaceTextInEditableField(pg, translatedText, throws, apiOk, exec)
                  IN  [replaced EXCEPT !.path = "replace",
                         !.toasts = Append(replaced.toasts, Toast("success", "Translated"))]
           ELSE [pg EXCEPT !.path = "clipboard",
                   !.clipboard = copyToClipboard(pg.clipboard, translatedText, apiOk, exec),
                   !.copied = apiOk \/ exec = "copied",
                   !.toasts =
                     << IF ~apiOk /\ exec = "throws"
                          THEN Toast("error", "Failed to copy translation to clipboard")
                        ELSE Toast("success", "Translation copied to clipboard") >>]

\* the page after the listener's showErrorNotification for 'showError'
showError_page(p, error) ==
  [p EXCEPT !.path = "showError", !.prev = PrevOf(p),
     !.toasts = << Toast("error", IF error = "" THEN "An error occurred" ELSE error) >>]

\* the content script receives 'handleTranslation'
handleTranslation(translatedText, throws, apiOk, exec) ==
  /\ page.path = "none"
  /\ page' = handleTranslation_page(page, translatedText, throws, apiOk, exec)
  /\ ev' = NoEv
  /\ UNCHANGED << serviceVars, rt, menuVars, handlerVars >>

\* the content script receives 'showError' with message.error
showError(error) ==
  /\ page.path = "none"
  /\ page' = showError_page(page, error)
  /\ ev' = NoEv
  /\ UNCHANGED << serviceVars, rt, menuVars, handlerVars >>

InitContent ==
  /\ ServiceStart
  /\ ExtInit

NextContent ==
  \/ \E target \in {"body", "input", "editable"}, selection \in SelectionTexts,
        hasRange \in BOOLEAN, v \in PageValues, start, end \in Offsets :
       mouseup(target, selection, hasRange, v, start, end)
  \/ \E translatedText \in TranslatedTexts, throws, apiOk \in BOOLEAN,
        exec \in {"copied", "false", "throws"} :
       handleTranslation(translatedText, throws, apiOk, exec)
  \/ \E error \in {"", TRANSLATION_FAILED} : showError(error)

SpecContent == InitContent /\ [][NextContent]_vars

\* C18: a 'handleTranslation' message with a non-empty text takes the path
\* the recorded context selects. Recorded as editable with a range: the
\* content that was selected is replaced where it stands (the text field's
\* value for a selection in the field, the range's content for one in a
\* contenteditable element) unless the DOM replacement throws, and the
\* clipboard is written only when it throws. Otherwise: the text goes to
\* the clipboard when one of the two copy mechanisms works, and neither the
\* field nor the page is changed
C18_TwoPaths ==
  page.path \in {"replace", "clipboard"} =>
    IF page.prev.isEditableField /\ page.prev.currentRange
      THEN /\ page.path = "replace"
           /\ ~page.threw =>
                 /\ page.prev.recorded = "input" => page.changed = "input"
                 /\ page.prev.recorded = "editable" => page.changed = "range"
                 /\ page.clipboard = page.prev.clipboard
    ELSE /\ page.path = "clipboard"
         /\ page.changed = "none"
         /\ page.value = page.prev.value
         /\ page.copied => page.clipboard = page.text
         /\ ~page.copied => page.clipboard = page.prev.clipboard

\* C19: the replacement in an input or textarea with value v, selection
\* offsets s and e and text t leaves the value v[0..s) + t + v[e..), the
\* collapsed selection at s + length(t) and one 'input' event; "foobar"
\* with offsets 0 and 3 and the text "baz" gives "bazbar" and the cursor 3
C19_InputSplice ==
  (page.path = "replace" /\ page.changed = "input") =>
    LET v == page.prev.value
        s == page.prev.selectionStart
        e == page.prev.selectionEnd
        t == page.text
    IN  /\ Len(page.value) = s + Len(t) + (Len(v) - e)
        /\ \A i \in 1..Len(page.value) :
              page.value[i] = IF i <= s THEN v[i]
                              ELSE IF i <= s + Len(t) THEN t[i - s]
                              ELSE v[i - s - Len(t) + e]
        /\ page.selectionStart = s + Len(t)
        /\ page.selectionEnd = s + Len(t)
        /\ page.inputEvents = 1
        /\ (v = FOOBAR /\ s = 0 /\ e = 3 /\ t = BAZ) =>
              /\ page.value = << 98, 97, 122, 98, 97, 114 >>
              /\ page.selectionStart = 3

\* "foo" of "foobar" has been replaced by "baz"
C19_Witness ==
  /\ page.path = "replace"
  /\ page.changed = "input"
  /\ page.prev.value = FOOBAR
  /\ page.prev.selectionStart = 0
  /\ page.prev.selectionEnd = 3
  /\ page.text = BAZ
  /\ page.value = << 98, 97, 122, 98, 97, 114 >>

\* ------------------------------------------------------------------------
\* Background page: changes of the stored custom entries
\* ------------------------------------------------------------------------
\* the synced store takes a customMenuItems list written by another writer
\* (the settings form of another signed-in browser): storage.onChanged
\* fires here with customMenuItems as the only changed key, which the
\* listener of the background page lets pass
storage_sync_changed(items) ==
  /\ writes < MaxWrites
  /\ items # prefs.customMenuItems
  /\ writes' = writes + 1
  /\ prefs' = [prefs EXCEPT !.customMenuItems = items]
  /\ ev' = [NoEv EXCEPT !.op = "storage_sync_changed", !.before = prefs]
  /\ UNCHANGED << serviceVars, rt, menus, rebuilds, seed, changed, updates, handlerVars, page >>

\* the steps the browser owes the background page: delivery of the change
\* event and of the popup's message, the removal and the two callbacks of
\* every rebuild
BackgroundSteps ==
  \/ onChanged
  \/ onMessage("updateContextMenus")
  \/ \E r \in 1..MaxRebuilds : removeAll(r)
  \/ \E r \in 1..MaxRebuilds : removeAll_callback(r)
  \/ \E r \in 1..MaxRebuilds : storage_get(r)
  \/ \E r \in 1..MaxRebuilds : storage_get_callback(r)

NextMenuChanges ==
  \/ BackgroundSteps
  \/ \E flag \in {"true", "false"}, items \in {<< >>, << Custom1 >>} :
       handleSaveConfig_set(flag, items)
  \/ \E items \in {<< >>, << Custom1 >>} : storage_sync_changed(items)

SpecMenuChanges ==
  InitMenus /\ [][NextMenuChanges]_vars /\ WF_vars(BackgroundSteps)

\* the stored list has just been changed
ListChanged ==
  /\ ev.op \in {"handleSaveConfig_set", "storage_sync_changed"}
  /\ ev.before.customMenuItems # prefs.customMenuItems

\* a rebuild has read the list that is stored now
RebuiltFromList ==
  \E r \in 1..Len(rebuilds) :
    rebuilds[r].read /\ rebuilds[r].snap.customMenuItems = prefs.customMenuItems

\* C21: every change of the stored customMenuItems list, whoever wrote it,
\* is followed by a rebuild that reads the new list
C21_ListChangeRebuilds == ListChanged ~> RebuiltFromList

\* C22: when the listener has answered an 'updateContextMenus' message, the
\* rebuild it started has run its removal and both callbacks
C22_RebuiltWhenAnswered ==
  (ev.op = "onMessage" /\ request.action = "updateContextMenus"
     /\ Len(request.responses) = 1) =>
    /\ rebuilds[Len(rebuilds)].cleared
    /\ rebuilds[Len(rebuilds)].removed
    /\ rebuilds[Len(rebuilds)].created

\* ------------------------------------------------------------------------
\* Content script: selection and focus changes while a translation is pending
\* ------------------------------------------------------------------------
\* the user picks a translate entry of the context menu on the recorded
\* selection: the request leaves for the background page, the content
\* script runs no code
contextmenu ==
  /\ page.path = "none"
  /\ page.origin = "none"
  /\ page.recorded # "none"
  /\ page.active = page.recorded
  /\ page' = [page EXCEPT !.origin = page.recorded]
  /\ ev' = NoEv
  /\ UNCHANGED << serviceVars, rt, menuVars, handlerVars >>

NextFocus ==
  \/ \E target \in {"body", "input", "editable"}, selection \in SelectionTexts,
        hasRange \in BOOLEAN, v \in {<< 97 >>}, start, end \in 0..1 :
       mouseup(target, selection, hasRange, v, start, end)
  \/ contextmenu
  \/ \E translatedText \in TranslatedTexts, throws, apiOk \in BOOLEAN,
        exec \in {"copied", "false", "throws"} :
       handleTranslation(translatedText, throws, apiOk, exec)

SpecFocus == InitContent /\ [][NextFocus]_vars

\* C23: a translation requested for a selection in one editable field and
\* arriving, with a non-empty text, when another editable field is focused
\* (the recorded context being editable with a range) is inserted into the
\* field focused at arrival, and the field of the original selection is
\* left as it was
C23_LastSelectionWins ==
  (/\ page.path \in {"replace", "clipboard"}
   /\ page.origin \in {"input", "editable"}
   /\ page.prev.active \in {"input", "editable"}
   /\ page.prev.active # page.origin
   /\ page.prev.isEditableField /\ page.prev.currentRange
   /\ ~page.threw) =>
    /\ page.path = "replace"
    /\ page.prev.active = "input" => page.changed = "input"
    /\ page.prev.active = "editable" =>
          /\ page.changed = "range"
          /\ page.value = page.prev.value

\* C24: a mouseup whose selection text is empty or all white space leaves
\* the recorded editable flag, range and element as they were; a mouseup
\* with any other selection records the range and whether the focused
\* element is editable
C24_BlankKeepsRecord ==
  [][ev'.op = "mouseup" =>
        IF \A i \in 1..Len(page'.text) : page'.text[i] \in WhiteSpace
          THEN /\ page'.isEditableField = page.isEditableField
               /\ page'.currentRange = page.currentRange
               /\ page'.recorded = page.recorded
        ELSE /\ page'.isEditableField = (page'.active \in {"input", "editable"})
             /\ page'.recorded = page'.active]_vars

\* a white-space selection outside the text field has left the record of
\* the selection in the text field in force
C24_Witness ==
  /\ ev.op = "mouseup"
  /\ page.text = << 32 >>
  /\ page.active = "body"
  /\ page.recorded = "input"
  /\ page.isEditableField
  /\ page.currentRange

\* C25: when the replacement in a contenteditable element has thrown, the
\* error toast is shown, the text is on the clipboard if one of the copy
\* mechanisms worked, and no rejection is left without a handler
C25_ReplacementFailureContained ==
  (page.path = "replace" /\ page.threw) =>
    /\ \E i \in 1..Len(page.toasts) : page.toasts[i].type = "error"
    /\ page.copied => page.clipboard = page.text
    /\ ~page.unhandled

\* C29: every handled 'handleTranslation' or 'showError' message has shown
\* exactly one toast
C29_OneToast ==
  page.path # "none" => Len(page.toasts) = 1

\* ------------------------------------------------------------------------
\* A context-menu click from the background page to the tab
\* ------------------------------------------------------------------------
\* the message of chrome.tabs.sendMessage reaches the listener of the tab's
\* content script
tabs_onMessage(throws, apiOk, exec) ==
  /\ click.pc = "done"
  /\ page.path = "none"
  /\ click' = [click EXCEPT !.pc = "delivered"]
  /\ page' = IF outbox[1].action = "handleTranslation"
               THEN handleTranslation_page(page, outbox[1].translatedText,
                                           throws, apiOk, exec)
             ELSE showError_page(page, outbox[1].error)
  /\ ev' = [NoEv EXCEPT !.op = "tabs_onMessage"]
  /\ UNCHANGED << serviceVars, rt, menuVars, request, outbox >>

InitTab ==
  /\ ServiceInit
  /\ ExtInit

NextTab ==
  \/ initializeAI("background")
  \/ initializeAI_decrypted("background")
  \/ \E target \in {"body", "input", "editable"}, selection \in {<< >>, << 72 >>} :
       mouseup(target, selection, TRUE, << 72 >>, 0, 1)
  \/ \E selection \in Selections : onClicked(SPANISH_TO_ENGLISH_ID, TRUE, selection)
  \/ \E resp \in Responses : onClicked_translated(resp)
  \/ \E throws, apiOk \in BOOLEAN, exec \in {"copied", "false", "throws"} :
       tabs_onMessage(throws, apiOk, exec)

SpecTab == InitTab /\ [][NextTab]_vars

\* C30: a click whose translation succeeded with the empty text has sent
\* 'handleTranslation'; the content script that received it has shown the
\* error toast 'No translation received' alone, has changed neither the
\* field nor the page and has written nothing to the clipboard
C30_EmptyTranslation ==
  (click.pc \in {"done", "delivered"} /\ click.result.success
     /\ click.result.translatedText = << >>) =>
    /\ outbox[1].action = "handleTranslation"
    /\ (click.pc = "delivered" /\ ev.op = "tabs_onMessage") =>
          /\ page.toasts = << [type |-> "error", message |-> "No translation received"] >>
          /\ page.changed = "none"
          /\ page.value = page.prev.value
          /\ page.clipboard = page.prev.clipboard
          /\ ~page.copied
          /\ page.inputEvents = 0

\* the model answered with white space only while the selection stood in
\* the text field: the content script has shown the error toast
C30_Witness ==
  /\ click.pc = "delivered"
  /\ ev.op = "tabs_onMessage"
  /\ click.result.success
  /\ click.resp.kind = "text"
  /\ click.resp.content # << >>
  /\ click.result.translatedText = << >>
  /\ page.prev.isEditableField
  /\ page.prev.active = "input"
  /\ Len(page.toasts) = 1

\* ------------------------------------------------------------------------
\* setConfig against the start-up load, a translate call and a failed write
\* ------------------------------------------------------------------------
\* C26: once the start-up load and the one setConfig call of an instance have
\* both ended, the call having resolved, this.config is the configuration
\* that the call stored, and with a non-empty apiKey the client is built
\* from it
C26_SetDuringLoad ==
  ( /\ initPc["popup"] = "done"
    /\ setPc["popup"] = "idle"
    /\ nSets = 1
    /\ stored.by = "set" /\ stored.writer = "popup" ) =>
    /\ SameConfig(config["popup"], stored.obj)
    /\ stored.obj.apiKey # << >> =>
         client["popup"] = [live |-> TRUE, apiKey |-> stored.obj.apiKey,
                            baseURL |-> stored.obj.endpoint]

\* C27: a request that translate sends while a setConfig of the same
\* instance is under way carries the endpoint, the apiKey and the model of
\* one configuration: the one before the call or the merged one
C27_RequestFromOneConfiguration ==
  (last.op = "translate" /\ last.flag /\ setPc[last.ctx] # "idle") =>
    \E cfg \in {setArg[last.ctx].prev, setArg[last.ctx].cfg} :
      last.req = [apiKey |-> cfg.apiKey, baseURL |-> cfg.endpoint,
                  model |-> cfg.model]

\* C28: when setConfig rejects because the storage write failed, this.config
\* is what it was before the call
C28_FailedWriteKeepsConfig ==
  (last.op = "setConfig_rejected" /\ last.cause = "storage") =>
    config[last.ctx] = last.prev

====
